---- MODULE Spec2Model ----
(***************************************************************************)
(* Model of pkg/artifactory/resource/webhook/resource_artifactory_webhook.go *)
(* (terraform-provider-artifactory): the webhook resource's domain tables, *)
(* criteria and handler codecs, diff validators, state upgrader and the    *)
(* create/read/update/delete handlers over the HTTP transport.             *)
(***************************************************************************)
EXTENDS Integers, Sequences, FiniteSets, TLC

VARIABLES
    webhookType,  \* the domain the resource was built for (ResourceArtifactoryWebhook's parameter)
    data,         \* *schema.ResourceData: the resource identity and the fields of local state
    pre,          \* history: data as it was when the running operation was entered
    op,           \* the handler or function that is running, "none" before the first
    pc,           \* position inside the running handler
    result,       \* what the handler returned (diag.Diagnostics), or that it panicked
    webhook,      \* the Go local `webhook` of the running handler (BaseParams)
    attempt,      \* attempts the transport has made for the request in flight
    sent,         \* history: the requests put on the wire by the running operation
    resp,         \* the last response the transport handed back
    ops,          \* number of operations started (bounded by MaxOps)
    diff,         \* *schema.ResourceDiff: the proposed configuration given to the diff validators
    rawState,     \* the raw state map given to (and mutated by) ResourceStateUpgradeV1
    handlers,     \* the []Handler given to packHandlers
    ret           \* return value of the pure function that was applied

vars == <<webhookType, data, pre, op, pc, result, webhook, attempt, sent, resp, ops,
          diff, rawState, handlers, ret>>

(***************************************************************************)
(* Bounds of the model                                                     *)
(***************************************************************************)
MaxRetries == 1        \* the client's retry count (owned by the transport)
MaxOps == 2            \* operations run one after the other on one resource
MaxEventTypes == 2     \* length of a proposed event_types list
MaxCriteria == 2       \* number of criteria blocks a configuration supplies
MaxHandlers == 2       \* number of handlers in local state / in a remote body

(***************************************************************************)
(* Program constants                                                       *)
(***************************************************************************)
currentSchemaVersion == 2
StatusNotFound == 404

(***************************************************************************)
(* Go values                                                               *)
(***************************************************************************)
GoNil == [go |-> "nil"]
GoString(s) == [go |-> "string", s |-> s]

Range(f) == {f[i] : i \in DOMAIN f}

Contains(seq, x) == \E i \in 1..Len(seq) : seq[i] = x

\* the sequences of length <= n of distinct elements of S
DistinctSeqs(S, n) ==
    {s \in UNION {[1..k -> S] : k \in 0..n} : \A i, j \in 1..Len(s) : i # j => s[i] # s[j]}

\* schema.Set.List(): the elements of a set in the set's own (hash) order
RECURSIVE SetList(_)
SetList(S) == IF S = {} THEN <<>>
              ELSE LET x == CHOOSE y \in S : TRUE IN <<x>> \o SetList(S \ {x})

(***************************************************************************)
(* Domain registry                                                         *)
(***************************************************************************)
TypesSupported ==
    << "artifact", "artifact_property", "docker", "build", "release_bundle",
       "distribution", "artifactory_release_bundle", "destination", "user",
       "release_bundle_v2", "release_bundle_v2_promotion", "artifact_lifecycle" >>

DomainEventTypesSupported ==
    [ artifact |-> <<"deployed", "deleted", "moved", "copied", "cached">>,
      artifact_property |-> <<"added", "deleted">>,
      docker |-> <<"pushed", "deleted", "promoted">>,
      build |-> <<"uploaded", "deleted", "promoted">>,
      release_bundle |-> <<"created", "signed", "deleted">>,
      distribution |-> <<"distribute_started", "distribute_completed", "distribute_aborted",
                         "distribute_failed", "delete_started", "delete_completed",
                         "delete_failed">>,
      artifactory_release_bundle |-> <<"received", "delete_started", "delete_completed",
                                       "delete_failed">>,
      destination |-> <<"received", "delete_started", "delete_completed", "delete_failed">>,
      user |-> <<"locked">>,
      release_bundle_v2 |-> <<"release_bundle_v2_started", "release_bundle_v2_failed",
                              "release_bundle_v2_completed">>,
      release_bundle_v2_promotion |-> <<"release_bundle_v2_promotion_completed",
                                        "release_bundle_v2_promotion_failed",
                                        "release_bundle_v2_promotion_started">>,
      artifact_lifecycle |-> <<"archive", "restore">> ]

domainCriteriaLookup ==
    [ artifact |-> "RepoWebhookCriteria",
      artifact_property |-> "RepoWebhookCriteria",
      docker |-> "RepoWebhookCriteria",
      build |-> "BuildWebhookCriteria",
      release_bundle |-> "ReleaseBundleWebhookCriteria",
      distribution |-> "ReleaseBundleWebhookCriteria",
      artifactory_release_bundle |-> "ReleaseBundleWebhookCriteria",
      destination |-> "ReleaseBundleWebhookCriteria",
      user |-> "EmptyWebhookCriteria",
      release_bundle_v2 |-> "ReleaseBundleV2WebhookCriteria",
      release_bundle_v2_promotion |-> "ReleaseBundleV2PromotionWebhookCriteria",
      artifact_lifecycle |-> "EmptyWebhookCriteria" ]

domainPackLookupEmptyForPromotion ==
    [ artifact |-> "packRepoCriteria",
      artifact_property |-> "packRepoCriteria",
      docker |-> "packRepoCriteria",
      build |-> "packBuildCriteria",
      release_bundle |-> "packReleaseBundleCriteria",
      distribution |-> "packReleaseBundleCriteria",
      artifactory_release_bundle |-> "packReleaseBundleCriteria",
      destination |-> "packReleaseBundleCriteria",
      user |-> "packEmptyCriteria",
      release_bundle_v2 |-> "packReleaseBundleV2Criteria",
      release_bundle_v2_promotion |-> "packEmptyCriteria",
      artifact_lifecycle |-> "packEmptyCriteria" ]

domainPackLookup ==
    [ artifact |-> "packRepoCriteria",
      artifact_property |-> "packRepoCriteria",
      docker |-> "packRepoCriteria",
      build |-> "packBuildCriteria",
      release_bundle |-> "packReleaseBundleCriteria",
      distribution |-> "packReleaseBundleCriteria",
      artifactory_release_bundle |-> "packReleaseBundleCriteria",
      destination |-> "packReleaseBundleCriteria",
      user |-> "packEmptyCriteria",
      release_bundle_v2 |-> "packReleaseBundleV2Criteria",
      release_bundle_v2_promotion |-> "packReleaseBundleV2PromotionCriteria",
      artifact_lifecycle |-> "packEmptyCriteria" ]

domainUnpackLookup ==
    [ artifact |-> "unpackRepoCriteria",
      artifact_property |-> "unpackRepoCriteria",
      docker |-> "unpackRepoCriteria",
      build |-> "unpackBuildCriteria",
      release_bundle |-> "unpackReleaseBundleCriteria",
      distribution |-> "unpackReleaseBundleCriteria",
      artifactory_release_bundle |-> "unpackReleaseBundleCriteria",
      destination |-> "unpackReleaseBundleCriteria",
      user |-> "unpackEmptyCriteria",
      release_bundle_v2 |-> "unpackReleaseBundleV2Criteria",
      release_bundle_v2_promotion |-> "unpackReleaseBundleV2PromotionCriteria",
      artifact_lifecycle |-> "unpackEmptyCriteria" ]

domainCriteriaValidationLookup ==
    [ artifact |-> "repoCriteriaValidation",
      artifact_property |-> "repoCriteriaValidation",
      docker |-> "repoCriteriaValidation",
      build |-> "buildCriteriaValidation",
      release_bundle |-> "releaseBundleCriteriaValidation",
      distribution |-> "releaseBundleCriteriaValidation",
      artifactory_release_bundle |-> "releaseBundleCriteriaValidation",
      destination |-> "releaseBundleCriteriaValidation",
      user |-> "emptyCriteriaValidation",
      release_bundle_v2 |-> "releaseBundleV2CriteriaValidation",
      release_bundle_v2_promotion |-> "emptyCriteriaValidation",
      artifact_lifecycle |-> "emptyCriteriaValidation" ]

Domains == Range(TypesSupported)

(***************************************************************************)
(* Key/value pairs of a handler's custom headers                           *)
(***************************************************************************)
\* map -> []KeyValuePair; a map without entries leaves the slice nil
unpackKeyValuePair(keyValuePairs) ==
    IF DOMAIN keyValuePairs = {} THEN GoNil
    ELSE [go |-> "list",
          items |-> LET names == SetList(DOMAIN keyValuePairs)
                    IN [i \in 1..Len(names) |->
                          [Name |-> names[i], Value |-> keyValuePairs[names[i]]]]]

\* []KeyValuePair -> map; a later pair of the same name overwrites an earlier one
packKeyValuePair(keyValuePairs) ==
    LET names == {keyValuePairs[i].Name : i \in 1..Len(keyValuePairs)}
        last(n) == CHOOSE i \in 1..Len(keyValuePairs) :
                      /\ keyValuePairs[i].Name = n
                      /\ \A j \in 1..Len(keyValuePairs) : keyValuePairs[j].Name = n => j <= i
    IN [n \in names |-> keyValuePairs[last(n)].Value]

NoHeaders == [n \in {} |-> ""]

(***************************************************************************)
(* Criteria codec                                                          *)
(***************************************************************************)
\* d.GetOk("criteria"): ok only for a set that is not empty
unpackCriteria(d, t) ==
    IF d.criteria # <<>>
    THEN LET criteria == d.criteria
         IN IF Len(criteria) = 1
            THEN LET id == criteria[1]
                 IN [go |-> "struct",
                     unpackedBy |-> domainUnpackLookup[t],
                     id |-> id,
                     IncludePatterns |-> SetList(id.include_patterns),
                     ExcludePatterns |-> SetList(id.exclude_patterns)]
            ELSE GoNil
    ELSE GoNil

\* one field of the decoded criteria map: v, ok := criteria[k]; ok && v != nil
PatternSet(v) == IF v.json = "array" THEN Range(v.items) ELSE {}

\* packCriteria: the block written under "criteria", a set with one element
packCriteria(d, t, criteria) ==
    [d EXCEPT !.criteria =
        << [fields |-> domainPackLookup[t],
            include_patterns |-> PatternSet(criteria.includePatterns),
            exclude_patterns |-> PatternSet(criteria.excludePatterns)] >>]

(***************************************************************************)
(* Diff validators                                                         *)
(***************************************************************************)
Errorf(msg) == [go |-> "error", msg |-> msg]

RECURSIVE FirstNotIn(_, _)
FirstNotIn(eventTypes, eventTypesSupported) ==
    IF eventTypes = <<>> THEN GoNil
    ELSE IF ~Contains(eventTypesSupported, Head(eventTypes))
         THEN GoString(Head(eventTypes))
         ELSE FirstNotIn(Tail(eventTypes), eventTypesSupported)

eventTypesDiffAnyDomain(df, t) ==
    LET eventTypes == df.event_types
        allTypes == UNION {Range(DomainEventTypesSupported[x]) : x \in Domains}
        bad == FirstNotIn(eventTypes, SetList(allTypes))
    IN IF bad = GoNil THEN GoNil
       ELSE Errorf(<<"event_type ", bad.s, " not supported for domain ", t>>)

eventTypesDiff(df, t) ==
    LET eventTypes == df.event_types
    IN IF Len(eventTypes) = 0 THEN GoNil
       ELSE LET eventTypesSupported == DomainEventTypesSupported[t]
                bad == FirstNotIn(eventTypes, eventTypesSupported)
            IN IF bad = GoNil THEN GoNil
               ELSE Errorf(<<"event_type ", bad.s, " not supported for domain ", t>>)

\* the validators behind domainCriteriaValidationLookup live in other files of the
\* package, all but emptyCriteriaValidation: the call is recorded, not evaluated
emptyCriteriaValidation(criteria) == GoNil

criteriaDiff(df, t) ==
    IF df.criteria # <<>>
    THEN LET criteria == df.criteria
         IN IF Len(criteria) = 0 THEN GoNil
            ELSE IF domainCriteriaValidationLookup[t] = "emptyCriteriaValidation"
                 THEN emptyCriteriaValidation(criteria[1])
                 ELSE [go |-> "call", fn |-> domainCriteriaValidationLookup[t],
                       criteria |-> criteria[1]]
    ELSE GoNil

(***************************************************************************)
(* Handler codec                                                           *)
(***************************************************************************)
RECURSIVE unpackHandlersLoop(_)
unpackHandlersLoop(hs) ==
    IF hs = <<>> THEN <<>>
    ELSE LET h == Head(hs)
         IN (IF h.url # ""
             THEN << [HandlerType |-> "webhook",
                      Url |-> h.url,
                      Secret |-> h.secret,
                      UseSecretForSigning |-> h.use_secret_for_signing,
                      Proxy |-> h.proxy,
                      CustomHttpHeaders |-> unpackKeyValuePair(h.custom_http_headers)] >>
             ELSE <<>>) \o unpackHandlersLoop(Tail(hs))

unpackHandlers(d) == unpackHandlersLoop(d.handler)

\* the loop of packSecret: every handler of the state is visited, the last match stays
RECURSIVE packSecretLoop(_, _, _)
packSecretLoop(hs, url, secret) ==
    IF hs = <<>> THEN secret
    ELSE packSecretLoop(Tail(hs), url,
                        IF Head(hs).url = url THEN Head(hs).secret ELSE secret)

packSecret(d, url) == packSecretLoop(d.handler, url, "")

packedHandlerEchoingSecret(d, handler) ==
    [url |-> handler.Url,
     secret |-> IF handler.Secret # "" THEN handler.Secret ELSE packSecret(d, handler.Url),
     use_secret_for_signing |-> handler.UseSecretForSigning,
     proxy |-> handler.Proxy,
     custom_http_headers |->
        IF handler.CustomHttpHeaders # GoNil
        THEN packKeyValuePair(handler.CustomHttpHeaders.items)
        ELSE NoHeaders]

\* one iteration of packHandlers' loop; a handler map without custom_http_headers
\* reads back from the state with the empty map
packedHandler(d, handler) ==
    [url |-> handler.Url,
     secret |-> packSecret(d, handler.Url),
     use_secret_for_signing |-> handler.UseSecretForSigning,
     proxy |-> handler.Proxy,
     custom_http_headers |->
        IF handler.CustomHttpHeaders # GoNil
        THEN packKeyValuePair(handler.CustomHttpHeaders.items)
        ELSE NoHeaders]

\* schema.NewSet keeps one of equal elements; the state lists the set in its own order
packHandlers(d, hs) ==
    [d EXCEPT !.handler = SetList({packedHandler(d, hs[i]) : i \in 1..Len(hs)})]

(***************************************************************************)
(* State upgrader, version 1 -> version 2                                  *)
(***************************************************************************)
FlatKeys == {"url", "secret", "proxy", "custom_http_headers"}

\* rawState[k] of a Go map: the zero value (nil) for a key that is not there
MapGet(m, k) == IF k \in DOMAIN m THEN m[k] ELSE GoNil

ResourceStateUpgradeV1OmittingAbsent(raw) ==
    LET entry == [k \in FlatKeys \cap DOMAIN raw |-> raw[k]]
    IN [k \in (DOMAIN raw \ FlatKeys) \cup {"handler"} |->
           IF k = "handler" THEN [go |-> "list", items |-> <<entry>>] ELSE raw[k]]

ResourceStateUpgradeV1(raw) ==
    LET entry == [k \in FlatKeys |-> MapGet(raw, k)]
        withHandler == [k \in DOMAIN raw \cup {"handler"} |->
                          IF k = "handler" THEN [go |-> "list", items |-> <<entry>>]
                          ELSE raw[k]]
    IN [k \in DOMAIN withHandler \ FlatKeys |-> withHandler[k]]

(***************************************************************************)
(* Values the variables hold while a specification does not use them       *)
(***************************************************************************)
NoData == [id |-> "", key |-> "", description |-> "", enabled |-> FALSE,
           event_types |-> {}, criteria |-> <<>>, handler |-> <<>>]
NoDiff == [event_types |-> <<>>, criteria |-> <<>>]
NoRawState == [k \in {} |-> GoNil]
NoJson == [json |-> "absent"]
NoResp == [err |-> FALSE, status |-> 0, body |-> <<>>, json |-> NoJson]
NoResult == [diag |-> "none"]

\* BaseParams{}: the zero value of the wire object
BaseParams == [Key |-> "", Description |-> "", Enabled |-> FALSE,
               EventFilter |-> [Domain |-> "", EventTypes |-> <<>>, Criteria |-> GoNil],
               Handlers |-> <<>>]

ControllerIdle ==
    /\ result = NoResult /\ webhook = BaseParams /\ attempt = 0
    /\ sent = <<>> /\ resp = NoResp /\ ops = 0

UNCHANGED_controller == UNCHANGED <<result, webhook, attempt, sent, resp, ops>>

(***************************************************************************)
(* Specification of eventTypesDiff over every domain and proposed list     *)
(***************************************************************************)
EventTypeUniverse ==
    UNION {Range(DomainEventTypesSupported[t]) : t \in Domains} \cup {"bogus"}

InitEventTypesDiff ==
    /\ webhookType \in Domains
    /\ diff \in [event_types : DistinctSeqs(EventTypeUniverse, MaxEventTypes),
                 criteria : {<<>>}]
    /\ data = NoData /\ pre = NoData /\ op = "none" /\ pc = "idle"
    /\ rawState = NoRawState /\ handlers = <<>> /\ ret = GoNil
    /\ ControllerIdle

EventTypesDiff ==
    /\ op = "none"
    /\ op' = "eventTypesDiff"
    /\ ret' = eventTypesDiff(diff, webhookType)
    /\ pc' = "done"
    /\ UNCHANGED <<webhookType, data, pre, diff, rawState, handlers>>
    /\ UNCHANGED_controller

SpecEventTypesDiff == InitEventTypesDiff /\ [][EventTypesDiff]_vars

(***************************************************************************)
(* Specification of criteriaDiff and unpackCriteria over the criteria      *)
(* blocks a configuration supplies                                         *)
(***************************************************************************)
Patterns == {"a", "b"}

CriteriaBlocks(t) == [fields : {domainPackLookup[t]},
                      include_patterns : SUBSET Patterns,
                      exclude_patterns : SUBSET Patterns]

InitCriteria ==
    /\ webhookType \in Domains
    /\ \E c \in DistinctSeqs(CriteriaBlocks(webhookType), MaxCriteria) :
          /\ diff = [event_types |-> <<>>, criteria |-> c]
          /\ data = [NoData EXCEPT !.criteria = c]
    /\ pre = data /\ op = "none" /\ pc = "idle"
    /\ rawState = NoRawState /\ handlers = <<>> /\ ret = GoNil
    /\ ControllerIdle

CriteriaDiff ==
    /\ op = "none"
    /\ op' = "criteriaDiff"
    /\ ret' = criteriaDiff(diff, webhookType)
    /\ pc' = "done"
    /\ UNCHANGED <<webhookType, data, pre, diff, rawState, handlers>>
    /\ UNCHANGED_controller

UnpackCriteria ==
    /\ op = "none"
    /\ op' = "unpackCriteria"
    /\ ret' = unpackCriteria(data, webhookType)
    /\ pc' = "done"
    /\ UNCHANGED <<webhookType, data, pre, diff, rawState, handlers>>
    /\ UNCHANGED_controller

NextCriteria == CriteriaDiff \/ UnpackCriteria

SpecCriteria == InitCriteria /\ [][NextCriteria]_vars

(***************************************************************************)
(* Specification of packHandlers over local and remote handler lists       *)
(***************************************************************************)
LocalHandlers == [url : {"u1", "u2"}, secret : {"", "s1", "s2"},
                  use_secret_for_signing : {FALSE}, proxy : {""},
                  custom_http_headers : {NoHeaders}]

RemoteHandlerRest ==
    { [UseSecretForSigning |-> FALSE, Proxy |-> "", CustomHttpHeaders |-> GoNil],
      [UseSecretForSigning |-> TRUE, Proxy |-> "p",
       CustomHttpHeaders |-> [go |-> "list", items |-> <<[Name |-> "h", Value |-> "v"]>>]] }

RemoteHandlers ==
    { [HandlerType |-> "webhook", Url |-> u, Secret |-> s,
       UseSecretForSigning |-> r.UseSecretForSigning, Proxy |-> r.Proxy,
       CustomHttpHeaders |-> r.CustomHttpHeaders] :
         u \in {"u1", "u3"}, s \in {"", "r"}, r \in RemoteHandlerRest }

SeqsUpTo(S, n) == UNION {[1..k -> S] : k \in 0..n}

InitHandlers ==
    /\ webhookType \in {"docker", "user"}
    /\ \E hs \in DistinctSeqs(LocalHandlers, MaxHandlers) :
          data = [NoData EXCEPT !.handler = hs]
    /\ handlers \in SeqsUpTo(RemoteHandlers, MaxHandlers)
    /\ pre = data /\ op = "none" /\ pc = "idle"
    /\ diff = NoDiff /\ rawState = NoRawState /\ ret = GoNil
    /\ ControllerIdle

PackHandlers ==
    /\ op = "none"
    /\ op' = "packHandlers"
    /\ data' = packHandlers(data, handlers)
    /\ pc' = "done"
    /\ UNCHANGED <<webhookType, pre, diff, rawState, handlers, ret>>
    /\ UNCHANGED_controller

SpecHandlers == InitHandlers /\ [][PackHandlers]_vars

(***************************************************************************)
(* Specification of ResourceStateUpgradeV1 over version-1 raw states       *)
(***************************************************************************)
RawKeysV1 == FlatKeys \cup {"key", "enabled"}

RawValues == {GoNil, GoString("a"), GoString("b")}

RawStatesV1 == UNION {[K -> RawValues] : K \in SUBSET RawKeysV1}

InitUpgrade ==
    /\ webhookType \in {"docker"}
    /\ rawState \in RawStatesV1
    /\ pre = rawState
    /\ data = NoData /\ op = "none" /\ pc = "idle"
    /\ diff = NoDiff /\ handlers = <<>> /\ ret = GoNil
    /\ ControllerIdle

\* the map is upgraded in place and returned
StateUpgradeV1 ==
    /\ op = "none"
    /\ op' = "ResourceStateUpgradeV1"
    /\ rawState' = ResourceStateUpgradeV1(rawState)
    /\ ret' = rawState'
    /\ pc' = "done"
    /\ UNCHANGED <<webhookType, data, pre, diff, handlers>>
    /\ UNCHANGED_controller

SpecUpgrade == InitUpgrade /\ [][StateUpgradeV1]_vars

(***************************************************************************)
(* Wire object                                                             *)
(***************************************************************************)
\* d.GetSet("event_types") lists the set
unpackWebhook(d, t) ==
    [Key |-> d.key,
     Description |-> d.description,
     Enabled |-> d.enabled,
     EventFilter |-> [Domain |-> t,
                      EventTypes |-> SetList(d.event_types),
                      Criteria |-> unpackCriteria(d, t)],
     Handlers |-> unpackHandlers(d)]

\* packWebhook: the fields are set in order; the assertion that the decoded criteria
\* is a map[string]interface{} is unchecked, so any other non-nil value panics there,
\* after key, description, enabled and event_types were set
packWebhook(d, wh, t) ==
    LET d1 == [d EXCEPT !.key = wh.Key,
                        !.description = wh.Description,
                        !.enabled = wh.Enabled,
                        !.event_types = Range(wh.EventFilter.EventTypes)]
        c == wh.EventFilter.Criteria
    IN IF c # GoNil /\ c.go # "map"
       THEN [data |-> d1, result |-> [diag |-> "panic"]]
       ELSE LET d2 == IF c # GoNil THEN packCriteria(d1, t, c) ELSE d1
            IN [data |-> packHandlers(d2, wh.Handlers), result |-> [diag |-> "ok"]]

\* encoding/json decoding the body into &webhook: a key that is absent leaves the
\* field as it was, null makes an interface nil, an object met in an interface that
\* holds a non-pointer value is decoded into a fresh map
DecodeCriteria(current, j) ==
    CASE j.json = "absent" -> current
      [] j.json = "null" -> GoNil
      [] OTHER -> [go |-> "map",
                   includePatterns |-> j.includePatterns,
                   excludePatterns |-> j.excludePatterns]

DecodeWebhook(wh, j) ==
    IF j.json # "object" THEN wh
    ELSE [Key |-> j.key,
          Description |-> j.description,
          Enabled |-> j.enabled,
          EventFilter |-> [Domain |-> j.domain,
                           EventTypes |-> j.event_types,
                           Criteria |-> DecodeCriteria(wh.EventFilter.Criteria, j.criteria)],
          Handlers |-> j.handlers]

(***************************************************************************)
(* Transport: requests, responses, retry conditions                        *)
(***************************************************************************)
webhooksUrl == "/event/api/v1/subscriptions"
WhUrl == <<webhooksUrl, "/{webhookKey}">>

\* resty's Response.IsError and IsSuccess
IsError(r) == r.status > 399
IsSuccess(r) == r.status > 199 /\ r.status < 300

\* A body is a sequence of pieces of text: ProxyWithKey and NotFound are the two
\* literals of the pattern, NewLine a line break, anything else other text.
ProxyWithKey == "proxy with key '"
NotFound == "' not found"
NewLine == "\n"

\* regexp "proxy with key '.*' not found" found anywhere in the body; `.` does not
\* match a line break
MatchString(body) ==
    \E i, j \in 1..Len(body) :
        /\ i < j
        /\ body[i] = ProxyWithKey
        /\ body[j] = NotFound
        /\ \A k \in (i + 1)..(j - 1) : body[k] # NewLine

retryOnAnyErrorResponse(response) == IsError(response)

retryOnProxyError(response) == MatchString(response.body)

\* the retry conditions the handlers add to their requests
RetryConditions(method) ==
    IF method \in {"POST", "PUT"} THEN {"retryOnProxyError"} ELSE {}

\* what the transport may decide after its n-th attempt: never to retry beyond the
\* client's retry count; a transport error is retried or not by the client's own
\* policy; a response is retried exactly when a condition of the request says so
RetryDecisions(method, r, n) ==
    IF n > MaxRetries THEN {FALSE}
    ELSE IF r.err THEN BOOLEAN
    ELSE {"retryOnProxyError" \in RetryConditions(method) /\ retryOnProxyError(r)}

Request(method, d, wh) ==
    CASE method = "POST" -> [method |-> "POST", url |-> <<webhooksUrl>>, webhookKey |-> "",
                             body |-> wh]
      [] method = "PUT" -> [method |-> "PUT", url |-> WhUrl, webhookKey |-> d.id, body |-> wh]
      [] OTHER -> [method |-> method, url |-> WhUrl, webhookKey |-> d.id, body |-> BaseParams]

SetId(d, id) == [d EXCEPT !.id = id]

FromErr == [diag |-> "error", err |-> <<"transport error">>]
ArtifactoryError(r) == [diag |-> "error", err |-> r.body]
Ok == [diag |-> "ok"]

(***************************************************************************)
(* The handlers after their request has come back                          *)
(***************************************************************************)
\* a fresh BaseParams whose criteria holds the domain's zero value (readWebhook's local)
ReadTarget(t) ==
    [BaseParams EXCEPT !.EventFilter.Criteria =
        [go |-> "struct", type |-> domainCriteriaLookup[t]]]

readWebhookPackingAnyResponse(d, wh, r, t) ==
    IF r.err THEN [data |-> d, result |-> FromErr]
    ELSE packWebhook(d, wh, t)

readWebhookAfterGet(d, wh, r, t) ==
    IF r.err THEN [data |-> d, result |-> FromErr]
    ELSE IF r.status = StatusNotFound THEN [data |-> SetId(d, ""), result |-> Ok]
    ELSE IF IsError(r) THEN [data |-> d, result |-> ArtifactoryError(r)]
    ELSE packWebhook(d, wh, t)

createWebhookSettingIdFirst(d, wh, r) ==
    IF r.err THEN [data |-> SetId(d, wh.Key), result |-> FromErr, read |-> FALSE]
    ELSE IF IsError(r)
         THEN [data |-> SetId(d, wh.Key), result |-> ArtifactoryError(r), read |-> FALSE]
    ELSE [data |-> SetId(d, wh.Key), result |-> NoResult, read |-> TRUE]

\* createWebhook from the return of Post to the call of readWebhook
createWebhookAfterPost(d, wh, r) ==
    IF r.err THEN [data |-> d, result |-> FromErr, read |-> FALSE]
    ELSE IF IsError(r) THEN [data |-> d, result |-> ArtifactoryError(r), read |-> FALSE]
    ELSE [data |-> SetId(d, wh.Key), result |-> NoResult, read |-> TRUE]

updateWebhookKeepingId(d, wh, r) ==
    IF r.err THEN [data |-> d, result |-> FromErr, read |-> FALSE]
    ELSE IF IsError(r) THEN [data |-> d, result |-> ArtifactoryError(r), read |-> FALSE]
    ELSE [data |-> d, result |-> NoResult, read |-> TRUE]

\* updateWebhook from the return of Put to the call of readWebhook
updateWebhookAfterPut(d, wh, r) ==
    IF r.err THEN [data |-> d, result |-> FromErr, read |-> FALSE]
    ELSE IF IsError(r) THEN [data |-> d, result |-> ArtifactoryError(r), read |-> FALSE]
    ELSE [data |-> SetId(d, wh.Key), result |-> NoResult, read |-> TRUE]

deleteWebhookClearingIdFirst(d, r) ==
    IF r.err THEN [data |-> SetId(d, ""), result |-> FromErr]
    ELSE IF r.status = StatusNotFound THEN [data |-> SetId(d, ""), result |-> Ok]
    ELSE IF IsError(r) THEN [data |-> SetId(d, ""), result |-> ArtifactoryError(r)]
    ELSE [data |-> SetId(d, ""), result |-> Ok]

deleteWebhookAfterDelete(d, r) ==
    IF r.err THEN [data |-> d, result |-> FromErr]
    ELSE IF r.status = StatusNotFound THEN [data |-> SetId(d, ""), result |-> Ok]
    ELSE IF IsError(r) THEN [data |-> d, result |-> ArtifactoryError(r)]
    ELSE [data |-> d, result |-> Ok]

(***************************************************************************)
(* Specification of the resource controller: create, read, update, delete  *)
(***************************************************************************)
Keys == {"wh1", "wh2"}

\* a configuration to create (no identity yet) or a resource already in the state
InitialData(t) ==
    { [id |-> i, key |-> "wh1", description |-> "d1", enabled |-> TRUE,
       event_types |-> {DomainEventTypesSupported[t][1]},
       criteria |-> c,
       handler |-> << [url |-> "u1", secret |-> "s1", use_secret_for_signing |-> FALSE,
                       proxy |-> "", custom_http_headers |-> NoHeaders] >>] :
         i \in {"", "wh1"},
         c \in { <<>>,
                 << [fields |-> domainPackLookup[t],
                     include_patterns |-> {"a"}, exclude_patterns |-> {}] >> } }

JsonPatterns == { [json |-> "absent"], [json |-> "null"],
                  [json |-> "array", items |-> <<"a">>] }

JsonCriteria ==
    { [json |-> "absent"], [json |-> "null"] }
    \cup { [json |-> "object", includePatterns |-> i, excludePatterns |-> e] :
             i \in JsonPatterns, e \in JsonPatterns }

JsonHandlers ==
    { << [HandlerType |-> "webhook", Url |-> u, Secret |-> "", UseSecretForSigning |-> FALSE,
          Proxy |-> "", CustomHttpHeaders |-> GoNil] >> : u \in {"u1", "u3"} }

JsonWebhook(t, k, c, hs) ==
    [json |-> "object", key |-> k, description |-> "d2", enabled |-> FALSE, domain |-> t,
     event_types |-> <<DomainEventTypesSupported[t][1]>>, criteria |-> c, handlers |-> hs]

\* the bodies of a successful Get: every shape of criteria for the key and handler the
\* state knows, and one body with another key and another handler
JsonWebhooks(t) ==
    { JsonWebhook(t, "wh1", c, hs) : c \in JsonCriteria, hs \in {h \in JsonHandlers : h[1].Url = "u1"} }
    \cup { JsonWebhook(t, "wh2", c, hs) :
             c \in {x \in JsonCriteria : x.json = "object" /\ x.includePatterns.json = "array"
                                          /\ x.excludePatterns.json = "array"},
             hs \in {h \in JsonHandlers : h[1].Url = "u3"} }

ErrorBodies == { <<>>, <<"x">>, <<ProxyWithKey, "x", NotFound>>, <<ProxyWithKey, NotFound>>,
                 <<ProxyWithKey, NewLine, NotFound>>, <<NotFound, ProxyWithKey>> }

\* the status codes the server answers with, besides 404
SuccessStatuses == {200}
ServerErrorStatuses == {500}

TransportError == [err |-> TRUE, status |-> 0, body |-> <<>>, json |-> NoJson]

\* what the server may answer to a request of the method
Responses(method, t) ==
    {TransportError}
    \cup [err : {FALSE}, status : ServerErrorStatuses,
          body : ErrorBodies, json : {NoJson}]
    \cup [err : {FALSE}, status : {StatusNotFound},
          body : {<<"x">>, <<ProxyWithKey, "x", NotFound>>}, json : {NoJson}]
    \cup (IF method = "GET"
          THEN [err : {FALSE}, status : SuccessStatuses, body : {<<"x">>}, json : JsonWebhooks(t)]
               \cup { [err |-> FALSE, status |-> s,
                       body |-> <<ProxyWithKey, "x", NotFound>>,
                       json |-> CHOOSE w \in JsonWebhooks(t) : w.criteria.json = "null"] :
                         s \in SuccessStatuses }
          ELSE [err : {FALSE}, status : SuccessStatuses,
                body : {<<"x">>, <<ProxyWithKey, "x", NotFound>>}, json : {NoJson}])

\* one domain of each criteria variant
ControllerDomains == {"artifact", "build", "release_bundle", "user", "release_bundle_v2",
                      "release_bundle_v2_promotion"}

Init ==
    /\ webhookType \in ControllerDomains
    /\ data \in InitialData(webhookType)
    /\ pre = data /\ op = "none" /\ pc = "idle"
    /\ diff = NoDiff /\ rawState = NoRawState /\ handlers = <<>> /\ ret = GoNil
    /\ ControllerIdle

UNCHANGED_pure == UNCHANGED <<webhookType, diff, rawState, handlers, ret>>

\* the host calls a handler when none is running, the provider has not crashed and
\* the resource was not deleted
MayCall ==
    /\ pc = "idle"
    /\ ops < MaxOps
    /\ result.diag # "panic"
    /\ ~(op = "delete" /\ result.diag = "ok")

Enter(name, wh, at) ==
    /\ op' = name /\ pre' = data /\ webhook' = wh /\ pc' = at
    /\ result' = NoResult /\ attempt' = 0 /\ sent' = <<>> /\ resp' = NoResp
    /\ ops' = ops + 1
    /\ UNCHANGED data
    /\ UNCHANGED_pure

\* createWebhook up to Post
CreateWebhook ==
    /\ MayCall /\ data.id = ""
    /\ Enter("create", unpackWebhook(data, webhookType), "POST")

\* updateWebhook up to Put
UpdateWebhook ==
    /\ MayCall /\ data.id # ""
    /\ Enter("update", unpackWebhook(data, webhookType), "PUT")

\* readWebhook up to Get
ReadWebhook ==
    /\ MayCall /\ data.id # ""
    /\ Enter("read", ReadTarget(webhookType), "GET")

\* deleteWebhook up to Delete
DeleteWebhook ==
    /\ MayCall /\ data.id # ""
    /\ Enter("delete", BaseParams, "DELETE")

\* the handler's position once the request of the method has come back
Returned(method) ==
    CASE method = "POST" -> "POST returned"
      [] method = "PUT" -> "PUT returned"
      [] method = "GET" -> "GET returned"
      [] OTHER -> "DELETE returned"

\* one attempt of the request in flight: the request goes out, the server answers,
\* a successful answer to Get is decoded into the result target, and the transport
\* either tries again or hands the response to the handler
Execute ==
    /\ pc \in {"POST", "PUT", "GET", "DELETE"}
    /\ \E r \in Responses(pc, webhookType) :
       \E retry \in RetryDecisions(pc, r, attempt + 1) :
          /\ sent' = Append(sent, [req |-> Request(pc, data, webhook), resp |-> r])
          /\ resp' = r
          /\ attempt' = attempt + 1
          /\ webhook' = IF pc = "GET" /\ ~r.err /\ IsSuccess(r)
                        THEN DecodeWebhook(webhook, r.json) ELSE webhook
          /\ pc' = IF retry THEN pc ELSE Returned(pc)
    /\ UNCHANGED <<data, pre, op, result, ops>>
    /\ UNCHANGED_pure

\* createWebhook after Post, to its return or to the Get of the readWebhook it calls
CreateWebhookAfterPost ==
    /\ pc = Returned("POST")
    /\ LET out == createWebhookAfterPost(data, webhook, resp)
       IN /\ data' = out.data
          /\ result' = out.result
          /\ pc' = IF out.read THEN "GET" ELSE "idle"
          /\ webhook' = IF out.read THEN ReadTarget(webhookType) ELSE webhook
          /\ attempt' = 0
    /\ UNCHANGED <<pre, op, sent, resp, ops>>
    /\ UNCHANGED_pure

\* updateWebhook after Put, to its return or to the Get of the readWebhook it calls
UpdateWebhookAfterPut ==
    /\ pc = Returned("PUT")
    /\ LET out == updateWebhookAfterPut(data, webhook, resp)
       IN /\ data' = out.data
          /\ result' = out.result
          /\ pc' = IF out.read THEN "GET" ELSE "idle"
          /\ webhook' = IF out.read THEN ReadTarget(webhookType) ELSE webhook
          /\ attempt' = 0
    /\ UNCHANGED <<pre, op, sent, resp, ops>>
    /\ UNCHANGED_pure

\* readWebhook after Get, called by the host or by createWebhook / updateWebhook,
\* whose result it then is
ReadWebhookAfterGet ==
    /\ pc = Returned("GET")
    /\ LET out == readWebhookAfterGet(data, webhook, resp, webhookType)
       IN /\ data' = out.data
          /\ result' = out.result
    /\ pc' = "idle"
    /\ UNCHANGED <<pre, op, webhook, attempt, sent, resp, ops>>
    /\ UNCHANGED_pure

\* deleteWebhook after Delete
DeleteWebhookAfterDelete ==
    /\ pc = Returned("DELETE")
    /\ LET out == deleteWebhookAfterDelete(data, resp)
       IN /\ data' = out.data
          /\ result' = out.result
    /\ pc' = "idle"
    /\ UNCHANGED <<pre, op, webhook, attempt, sent, resp, ops>>
    /\ UNCHANGED_pure

Next ==
    \/ CreateWebhook
    \/ UpdateWebhook
    \/ ReadWebhook
    \/ DeleteWebhook
    \/ Execute
    \/ CreateWebhookAfterPost
    \/ UpdateWebhookAfterPut
    \/ ReadWebhookAfterGet
    \/ DeleteWebhookAfterDelete

Spec == Init /\ [][Next]_vars

(***************************************************************************)
(* Claims about the pure functions                                         *)
(***************************************************************************)
Supported(t) == Range(DomainEventTypesSupported[t])

\* C4: for every domain and every proposed list of event types, eventTypesDiff
\* returns no error exactly when every requested type is in
\* DomainEventTypesSupported[domain] (the empty list passes), and an error it
\* returns is "event_type <e> not supported for domain <domain>" for a requested
\* type e outside that set.
C4_EventTypesValidation ==
    op = "eventTypesDiff" =>
        /\ (ret = GoNil) <=> (Range(diff.event_types) \subseteq Supported(webhookType))
        /\ ret # GoNil =>
             \E e \in Range(diff.event_types) \ Supported(webhookType) :
                 ret = Errorf(<<"event_type ", e, " not supported for domain ", webhookType>>)

\* C4 witness: a two-element proposal whose first type is supported and whose
\* second is another domain's type was rejected.
C4_Witness ==
    /\ op = "eventTypesDiff"
    /\ webhookType = "user"
    /\ diff.event_types = <<"locked", "deleted">>
    /\ ret = Errorf(<<"event_type ", "deleted", " not supported for domain ", "user">>)

\* C5: after packHandlers, every handler the remote system returned has a packed
\* handler with the same url, use_secret_for_signing and proxy, whose secret is the
\* secret of a local-state handler with exactly that url (of the one, when the url is
\* unique in local state) and the empty string when no local handler has that url;
\* the remote handler's own Secret is never used; nothing else is packed.
C5_SecretMerge ==
    op = "packHandlers" =>
        /\ \A i \in 1..Len(handlers) :
              LET h == handlers[i]
                  m == {l \in Range(pre.handler) : l.url = h.Url}
              IN \E p \in Range(data.handler) :
                    /\ p.url = h.Url
                    /\ p.use_secret_for_signing = h.UseSecretForSigning
                    /\ p.proxy = h.Proxy
                    /\ IF m = {} THEN p.secret = "" ELSE p.secret \in {l.secret : l \in m}
        /\ \A p \in Range(data.handler) :
              /\ \E i \in 1..Len(handlers) : handlers[i].Url = p.url
              /\ IF \E l \in Range(pre.handler) : l.url = p.url
                 THEN \E l \in Range(pre.handler) : l.url = p.url /\ l.secret = p.secret
                 ELSE p.secret = ""

\* C5 witness: a remote handler that carries a secret of its own was packed with the
\* local secret of its url, and another with an url unknown locally with none.
C5_Witness ==
    /\ op = "packHandlers"
    /\ Len(pre.handler) = 1 /\ pre.handler[1].url = "u1" /\ pre.handler[1].secret = "s1"
    /\ Len(handlers) = 2
    /\ handlers[1].Url = "u1" /\ handlers[1].Secret = "r"
    /\ handlers[2].Url = "u3" /\ handlers[2].Secret = "r"
    /\ \E p \in Range(data.handler) : p.url = "u1" /\ p.secret = "s1"
    /\ \E p \in Range(data.handler) : p.url = "u3" /\ p.secret = ""

UpgradedShape(in, out, entryKeys) ==
    /\ DOMAIN out = (DOMAIN in \ FlatKeys) \cup {"handler"}
    /\ \A k \in DOMAIN in \ (FlatKeys \cup {"handler"}) : out[k] = in[k]
    /\ out["handler"].go = "list"
    /\ Len(out["handler"].items) = 1
    /\ DOMAIN out["handler"].items[1] = entryKeys
    /\ \A k \in entryKeys : out["handler"].items[1][k] = MapGet(in, k)

\* C6 as amended: ResourceStateUpgradeV1 leaves none of url, secret, proxy,
\* custom_http_headers at top level; handler is a one-element list whose entry always
\* has those four keys, each with the value the flat field had, or nil when the flat
\* field was absent from the input; every other top-level key is unchanged; the map
\* returned is the map given, upgraded in place.
C6_StateUpgrade ==
    op = "ResourceStateUpgradeV1" =>
        /\ UpgradedShape(pre, ret, FlatKeys)
        /\ rawState = ret

\* C6 as claimed: a flat field absent from the input contributes no key to the
\* handler entry.
C6_AbsentFieldContributesNoKey ==
    op = "ResourceStateUpgradeV1" =>
        UpgradedShape(pre, ret, FlatKeys \cap DOMAIN pre)

\* C6 witness: {url, secret, proxy} was upgraded.
C6_Witness ==
    /\ op = "ResourceStateUpgradeV1"
    /\ DOMAIN pre = {"url", "secret", "proxy"}
    /\ pre["url"] = GoString("a")
    /\ ret["handler"].items[1]["url"] = GoString("a")
    /\ ret["handler"].items[1]["custom_http_headers"] = GoNil

\* C9: with more than one criteria block only the first is considered: it is the
\* one unpackCriteria puts in the wire object and the one criteriaDiff hands to the
\* domain's validation; with zero blocks the wire object carries no criteria.
C9_FirstCriteriaBlockOnly ==
    /\ op = "unpackCriteria" =>
          IF Len(data.criteria) = 0 THEN ret = GoNil
          ELSE ret.go = "struct" /\ ret.id = data.criteria[1]
    /\ (op = "criteriaDiff" /\ Len(diff.criteria) > 0
           /\ domainCriteriaValidationLookup[webhookType] # "emptyCriteriaValidation") =>
          ret.go = "call" /\ ret.criteria = diff.criteria[1]

(***************************************************************************)
(* Claims about the resource controller                                    *)
(***************************************************************************)
Last == sent[Len(sent)]

Exchanges(methods) == {i \in 1..Len(sent) : sent[i].req.method \in methods}

\* the last attempt of the Post or Put of the running create or update
Submission == sent[CHOOSE i \in Exchanges({"POST", "PUT"}) :
                      \A j \in Exchanges({"POST", "PUT"}) : j <= i]

ErrorResponse(r) == ~r.err /\ r.status >= 400

Failed(r) == r.err \/ ErrorResponse(r)

Surfaced(r) == IF r.err THEN FromErr ELSE ArtifactoryError(r)

Finished(names) == op \in names /\ pc = "idle"

\* C1: a Create whose Post ended, after any retries, in a transport error or an
\* error response returns that error, has issued no Get, and leaves the identity
\* (empty) and every field of local state as they were; and up to the handling of
\* the Post's outcome nothing of local state is touched.
C1_CreateFailureLeavesState ==
    /\ (op = "create" /\ pc \in {"POST", "POST returned"}) => data = pre
    /\ (Finished({"create"}) /\ Failed(Submission.resp)) =>
          /\ result = Surfaced(Submission.resp)
          /\ Exchanges({"GET"}) = {}
          /\ data = pre
          /\ data.id = ""

\* C1 witness: a Create ended with the error of a response that was first retried.
C1_Witness ==
    /\ Finished({"create"})
    /\ Len(sent) = 2
    /\ ErrorResponse(sent[2].resp)
    /\ result.diag = "error"

\* the state a Read works on: as the operation found it, after the identity was set
\* by a Create or Update that calls it
BeforeRead == IF op = "read" THEN pre ELSE SetId(pre, pre.key)

ReadFinished == Finished({"read", "create", "update"}) /\ Exchanges({"GET"}) # {}

\* C2: a Read whose response is 404 clears the identity, returns no error and leaves
\* every other field; on any other error response, or a transport error, it returns the
\* error and changes nothing; local state fields change only on a response that is
\* neither.
C2_ReadOutcomes ==
    ReadFinished =>
        LET r == Last.resp
        IN /\ (~r.err /\ r.status = StatusNotFound) =>
                 result = Ok /\ data = SetId(BeforeRead, "")
           /\ (r.err \/ (ErrorResponse(r) /\ r.status # StatusNotFound)) =>
                 result = Surfaced(r) /\ data = BeforeRead
           /\ (data # BeforeRead /\ data # SetId(BeforeRead, "")) => ~Failed(r)

\* C2 witness: a Read of a resource got 404 and cleared the identity.
C2_Witness ==
    /\ Finished({"read"})
    /\ ~Last.resp.err /\ Last.resp.status = StatusNotFound
    /\ pre.id = "wh1" /\ data.id = ""

\* C3: a Delete answered with 404 returns no error and leaves the identity cleared;
\* a Delete that ends in another error response or a transport error returns that
\* error and leaves the identity as it was; no other field is touched.
C3_DeleteOutcomes ==
    Finished({"delete"}) =>
        LET r == Last.resp
        IN /\ (~r.err /\ r.status = StatusNotFound) => result = Ok /\ data.id = ""
           /\ (r.err \/ (ErrorResponse(r) /\ r.status # StatusNotFound)) =>
                 result = Surfaced(r) /\ data.id = pre.id /\ data.id # ""
           /\ SetId(data, "") = SetId(pre, "")

\* C3 witness: a Delete ended with the error of a 500 response, the identity kept.
C3_Witness ==
    /\ Finished({"delete"})
    /\ ~Last.resp.err /\ Last.resp.status \in ServerErrorStatuses
    /\ result.diag = "error" /\ data.id = "wh1"

\* the i-th exchange was followed by another attempt of its request, or one is due
Resent(i) ==
    \/ i < Len(sent) /\ sent[i + 1].req.method = sent[i].req.method
    \/ i = Len(sent) /\ pc = sent[i].req.method

\* the exchanges of a request are consecutive: which attempt the i-th was
AttemptOf(i) == Cardinality({j \in 1..i : sent[j].req.method = sent[i].req.method})

\* C7: within the client's retry count, a response to the Post of Create or the Put of
\* Update is followed by another attempt exactly when its body matches
\* proxy with key '.*' not found (on one line); a response with any other body is
\* handed to the handler, which surfaces an error response at once; every further
\* attempt sends the request that was sent before; a response to the Get of Read or
\* the Delete of Delete is never followed by another attempt.
C7_ProxyRetry ==
    \A i \in 1..Len(sent) :
        LET e == sent[i]
        IN /\ (i < Len(sent) /\ Resent(i)) => sent[i + 1].req = e.req
           /\ ~e.resp.err =>
                 (Resent(i) <=> /\ e.req.method \in {"POST", "PUT"}
                                /\ MatchString(e.resp.body)
                                /\ AttemptOf(i) <= MaxRetries)
           /\ (e.req.method \in {"POST", "PUT"} /\ ErrorResponse(e.resp)
                 /\ ~Resent(i) /\ pc = "idle") =>
                 i = Len(sent) /\ result = ArtifactoryError(e.resp)

\* C7 witness: a Post answered with the proxy message was sent again, and the
\* unrelated error that came next ended the Create.
C7_Witness ==
    /\ Finished({"create"})
    /\ Len(sent) = 2
    /\ sent[1].resp.body = <<ProxyWithKey, "x", NotFound>>
    /\ sent[2].req = sent[1].req
    /\ sent[2].resp.body = <<"x">> /\ sent[2].resp.status \in ServerErrorStatuses
    /\ result.diag = "error"

\* C8: in a Create or Update a Get is issued only after the last attempt of the
\* submission got a response that is no error, and it asks for the key of the
\* configuration submitted, to which the identity was set; a Create or Update whose
\* submission succeeded does not return before that Read, and returns what the Read
\* returns: identity cleared and no error on 404, the error otherwise, else the packed
\* state.
C8_ReadFollowsSubmit ==
    op \in {"create", "update"} =>
        /\ \A i \in Exchanges({"GET"}) :
              /\ ~Failed(Submission.resp)
              /\ \A j \in Exchanges({"POST", "PUT"}) : j < i
              /\ sent[i].req.webhookKey = pre.key
        /\ (pc \in {"GET", "GET returned"}) => data = SetId(pre, pre.key)
        /\ (pc = "idle" /\ ~Failed(Submission.resp)) =>
              /\ Exchanges({"GET"}) # {}
              /\ LET r == Last.resp
                 IN /\ Last.req.method = "GET"
                    /\ (~r.err /\ r.status = StatusNotFound) => result = Ok /\ data.id = ""
                    /\ (r.err \/ (ErrorResponse(r) /\ r.status # StatusNotFound)) =>
                          result = Surfaced(r) /\ data.id = pre.key
                    /\ ~Failed(r) =>
                          /\ result.diag \in {"ok", "panic"}
                          /\ data.id = pre.key /\ data.key = r.json.key

\* C8 witness: an Update of a resource whose configured key differs from its identity
\* succeeded, set the identity to that key and read it back.
C8_Witness ==
    /\ Finished({"update"})
    /\ pre.id = "wh1" /\ pre.key = "wh2"
    /\ Last.req.method = "GET" /\ Last.req.webhookKey = "wh2"
    /\ result = Ok /\ data.id = "wh2"

EmptyCriteria(t) ==
    << [fields |-> domainPackLookup[t], include_patterns |-> {}, exclude_patterns |-> {}] >>

\* C10: a successful Read whose body carries no criteria (the key is not there)
\* returns no error and leaves the domain's empty criteria variant in the state; a
\* criteria object whose
\* includePatterns or excludePatterns is absent or null gives the empty set for that
\* field and no error.
C10_ReadToleratesMissingCriteria ==
    (ReadFinished /\ ~Failed(Last.resp) /\ Last.resp.json.criteria.json # "null") =>
        LET c == Last.resp.json.criteria
        IN /\ result = Ok
           /\ c.json = "absent" => data.criteria = EmptyCriteria(webhookType)
           /\ c.json = "object" =>
                 /\ Len(data.criteria) = 1
                 /\ data.criteria[1].include_patterns =
                       (IF c.includePatterns.json = "array"
                        THEN Range(c.includePatterns.items) ELSE {})
                 /\ data.criteria[1].exclude_patterns =
                       (IF c.excludePatterns.json = "array"
                        THEN Range(c.excludePatterns.items) ELSE {})

\* C10, the part that holds: a criteria object is packed without error, a pattern
\* field that is absent or null as the empty set.
C10_PatternsTolerated ==
    (ReadFinished /\ ~Failed(Last.resp) /\ Last.resp.json.criteria.json = "object") =>
        LET c == Last.resp.json.criteria
        IN /\ result = Ok
           /\ Len(data.criteria) = 1
           /\ data.criteria[1].fields = domainPackLookup[webhookType]
           /\ data.criteria[1].include_patterns =
                 (IF c.includePatterns.json = "array"
                  THEN Range(c.includePatterns.items) ELSE {})
           /\ data.criteria[1].exclude_patterns =
                 (IF c.excludePatterns.json = "array"
                  THEN Range(c.excludePatterns.items) ELSE {})

(***************************************************************************)
(* Specification of the lookups in the domain registry                     *)
(***************************************************************************)
\* the lookup tables keyed by domain name
RegistryTables ==
    [ DomainEventTypesSupported |-> DomainEventTypesSupported,
      domainCriteriaLookup |-> domainCriteriaLookup,
      domainPackLookup |-> domainPackLookup,
      domainUnpackLookup |-> domainUnpackLookup,
      domainCriteriaValidationLookup |-> domainCriteriaValidationLookup ]

\* v, ok := table[name] of a Go map
MapLookup(table, name) ==
    IF name \in DOMAIN table THEN [ok |-> TRUE, v |-> table[name]] ELSE [ok |-> FALSE]

\* names that are no domain
OtherNames == {"", "bogus", "repo", "release_bundle_v3"}

NoLookups == [n \in {} |-> [ok |-> FALSE]]

InitRegistry ==
    /\ webhookType \in Domains \cup OtherNames
    /\ ret = NoLookups
    /\ data = NoData /\ pre = NoData /\ op = "none" /\ pc = "idle"
    /\ diff = NoDiff /\ rawState = NoRawState /\ handlers = <<>>
    /\ ControllerIdle

\* the name is looked up in one more table
LookupIn(table) ==
    /\ table \notin DOMAIN ret
    /\ ret' = [n \in DOMAIN ret \cup {table} |->
                 IF n = table THEN MapLookup(RegistryTables[table], webhookType) ELSE ret[n]]
    /\ op' = table
    /\ pc' = "done"
    /\ UNCHANGED <<webhookType, data, pre, diff, rawState, handlers>>
    /\ UNCHANGED_controller

LookupEventTypes == LookupIn("DomainEventTypesSupported")
LookupCriteria == LookupIn("domainCriteriaLookup")
LookupPack == LookupIn("domainPackLookup")
LookupUnpack == LookupIn("domainUnpackLookup")
LookupValidation == LookupIn("domainCriteriaValidationLookup")

NextRegistry ==
    \/ LookupEventTypes
    \/ LookupCriteria
    \/ LookupPack
    \/ LookupUnpack
    \/ LookupValidation

SpecRegistry == InitRegistry /\ [][NextRegistry]_vars

\* the criteria variant a zero value, a pack function or an unpack function is of,
\* as its name says
VariantKind ==
    [ RepoWebhookCriteria |-> "Repo",
      packRepoCriteria |-> "Repo",
      unpackRepoCriteria |-> "Repo",
      BuildWebhookCriteria |-> "Build",
      packBuildCriteria |-> "Build",
      unpackBuildCriteria |-> "Build",
      ReleaseBundleWebhookCriteria |-> "ReleaseBundle",
      packReleaseBundleCriteria |-> "ReleaseBundle",
      unpackReleaseBundleCriteria |-> "ReleaseBundle",
      EmptyWebhookCriteria |-> "Empty",
      packEmptyCriteria |-> "Empty",
      unpackEmptyCriteria |-> "Empty",
      ReleaseBundleV2WebhookCriteria |-> "ReleaseBundleV2",
      packReleaseBundleV2Criteria |-> "ReleaseBundleV2",
      unpackReleaseBundleV2Criteria |-> "ReleaseBundleV2",
      ReleaseBundleV2PromotionWebhookCriteria |-> "ReleaseBundleV2Promotion",
      packReleaseBundleV2PromotionCriteria |-> "ReleaseBundleV2Promotion",
      unpackReleaseBundleV2PromotionCriteria |-> "ReleaseBundleV2Promotion" ]

CodecTables == {"domainCriteriaLookup", "domainPackLookup", "domainUnpackLookup"}

\* C11: TypesSupported lists 12 different domains; a name finds an entry in a lookup
\* table (event types, criteria zero value, pack, unpack, validation) exactly when it
\* is one of them, so every table has an entry for every domain and none for another
\* name; and the zero value, the pack function and the unpack function found for a
\* domain are of one criteria variant.
C11_RegistryTotalAndConsistent ==
    /\ Len(TypesSupported) = 12
    /\ Cardinality(Domains) = 12
    /\ \A n \in DOMAIN ret : ret[n].ok <=> webhookType \in Domains
    /\ \A n \in DOMAIN ret \cap CodecTables : ret[n].ok => ret[n].v \in DOMAIN VariantKind
    /\ \A m, n \in DOMAIN ret \cap CodecTables :
          (ret[m].ok /\ ret[n].ok) => VariantKind[ret[m].v] = VariantKind[ret[n].v]

\* C11 witness: release_bundle_v2_promotion was looked up in all five tables and its
\* zero value, pack and unpack functions are of the promotion variant.
C11_Witness ==
    /\ webhookType = "release_bundle_v2_promotion"
    /\ DOMAIN ret = DOMAIN RegistryTables
    /\ \A n \in DOMAIN ret : ret[n].ok
    /\ \A n \in CodecTables : VariantKind[ret[n].v] = "ReleaseBundleV2Promotion"

====
